---- MODULE Spec2Model ----
(***************************************************************************)
(* LocalSymbolSearch: the client-side symbol search island of the package  *)
(* documentation page.  Two forms of the component are in the repository:  *)
(*   "navigable"  frontend/routes/package/(_islands)/LocalSymbolSearch.tsx *)
(*                (results signal, selectionIdx, arrow keys, Enter, click) *)
(*   "sectioned"  unnamed/part_000 (section-aware reconcile, panel swap,   *)
(*                key handler commented out)                               *)
(* The model carries both; `variant` says which one is mounted.            *)
(***************************************************************************)
EXTENDS Integers, Sequences, FiniteSets, TLC

VARIABLES
    variant,              \* which form of the component is mounted
    props,                \* LocalSymbolSearchProps: content (supplied or not), scope, pkg, version
    content,              \* the documentation HTML (the prop, or the data of the fetch), as a tree
    mounted,              \* the component is mounted (its DOM listeners are registered)
    createState,          \* the create() promise of the mount effect
    fetchState,           \* the api.get() promise of the mount effect
    initPc,               \* position of the mount effect's async function
    searchItems,          \* local searchItems of the mount effect, handed to insertMultiple
    errorLogged,          \* console.error(searchResp) has run
    db,                   \* db.value is defined
    indexDocs,            \* the documents held by the Orama index
    parsedSearchContent,  \* parsedSearchContent.value is a Document (not null)
    hidden,               \* per element of the parsed document: style display is "none"
    results,              \* results.value (the signal; navigable variant)
    selectionIdx,         \* selectionIdx.value
    showResults,          \* showResults.value
    inputValue,           \* the text of #symbol-search-input
    pending,              \* onInput calls suspended at `await search(...)`, oldest first
    searchResult,         \* searchResult.hits of the onInput call that resumed last
    searchOnUnready,      \* search() has been called with db.value undefined
    searchCounter,        \* searchCounter.value (sectioned variant)
    href,                 \* location.href once assigned by onKeyUp, else NoHref
    defaultPrevented,     \* e.preventDefault() has run in onKeyUp
    queryCompleted,       \* history: some onInput call has run past its await
    arrowDowns,           \* history: ArrowDown keyups since the last completed query, with
                          \* no other event in between (at most MaxDowns), else -1
    raw,                  \* the string handed to the tokenize callback, as a sequence of characters
    tokenized,            \* the tokenize callback has returned
    tokens,               \* the array returned by the tokenize callback
    panel                 \* the results panel on screen: shown or not, and the visibility
                          \* of the elements in the HTML it was last given

vars == << variant, props, content, mounted, createState, fetchState, initPc,
           searchItems, errorLogged, db, indexDocs, parsedSearchContent, hidden,
           results, selectionIdx, showResults, inputValue, pending, searchResult,
           searchOnUnready, searchCounter, href, defaultPrevented,
           queryCompleted, arrowDowns, raw, tokenized, tokens, panel >>

(***************************************************************************)
(* Bounds of the model.                                                    *)
(***************************************************************************)
MaxNodes == 3      \* elements with class "section" or "namespaceItem" in a document
MaxPending == 2    \* onInput calls suspended at the same time
MaxSearches == 2   \* cap of searchCounter
MaxDowns == 4      \* ArrowDown keyups counted by arrowDowns
MaxLen == 3        \* length of the enumerated inputs of the tokenize callback
MountNodes == 1    \* elements of the document in the runs that follow one mount closely

Names == {"Foo", "Bar"}          \* data-name values
Terms == {"f", "fo"}             \* non-empty texts of the input
Versions == {"1.0.0"}            \* props.version
NoHref == "about:blank"

(***************************************************************************)
(* The parsed document.  Only the elements the component looks at are      *)
(* kept: those of class "section" and of class "namespaceItem", numbered   *)
(* in document order, each with its nearest kept ancestor (0: none).       *)
(***************************************************************************)
NodeRec == [kind : {"section"}, name : {""}, parent : 0..(MaxNodes - 1)]
             \cup [kind : {"namespaceItem"}, name : Names, parent : 0..(MaxNodes - 1)]

RECURSIVE Ancestors(_, _)
Ancestors(d, i) ==
    IF d[i].parent = 0 THEN {} ELSE {d[i].parent} \cup Ancestors(d, d[i].parent)

\* Numbering is document (pre-)order; a namespaceItem holds no kept element.
WellFormed(d) ==
    \A i \in DOMAIN d :
        /\ d[i].parent < i
        /\ d[i].parent # 0 => d[d[i].parent].kind = "section"
        /\ i > 1 => d[i].parent \in {0, i - 1} \cup Ancestors(d, i - 1)

Docs == UNION { { d \in [1..n -> NodeRec] : WellFormed(d) } : n \in 0..MaxNodes }

\* element.getElementsByClassName(cls) / document.getElementsByClassName(cls):
\* the descendants of `root` (0: the document) of that class, in document order.
RECURSIVE ByClassFrom(_, _, _, _)
ByClassFrom(d, root, cls, i) ==
    IF i > Len(d) THEN << >>
    ELSE IF d[i].kind = cls /\ (root = 0 \/ root \in Ancestors(d, i))
         THEN << i >> \o ByClassFrom(d, root, cls, i + 1)
         ELSE ByClassFrom(d, root, cls, i + 1)

getElementsByClassName(d, root, cls) == ByClassFrom(d, root, cls, 1)

Min(a, b) == IF a < b THEN a ELSE b
Max(a, b) == IF a > b THEN a ELSE b

(***************************************************************************)
(* Rendering of the results panel.  The component function runs again when *)
(* a signal whose .value it read in its last run is assigned a different   *)
(* value (!==), and only while the component is mounted.                   *)
(***************************************************************************)

\* No panel on screen and no HTML given to it yet.
NoPanel == [shown |-> FALSE, hasDoc |-> FALSE, html |-> << >>]

\* What one run of the component function leaves on screen.
\* navigable: {showResults.value && <div dangerouslySetInnerHTML={{ __html:
\*   parsedSearchContent.value?.documentElement?.innerHTML }}>}
\* sectioned: the IS_BROWSER block swapping docMain and docSearchResults; the
\*   innerHTML of docSearchResults is kept when it is hidden.
Render(v, p, show, parsed, h, old) ==
    IF v = "navigable"
    THEN IF show
         THEN [shown |-> TRUE, hasDoc |-> parsed, html |-> IF parsed THEN h ELSE << >>]
         ELSE NoPanel
    ELSE IF show /\ (parsed \/ p.content)
         THEN [shown |-> TRUE, hasDoc |-> TRUE,
               html |-> IF parsed THEN h ELSE [i \in DOMAIN content |-> FALSE]]
         ELSE [old EXCEPT !.shown = FALSE]

\* The re-render scheduled by a signal the component function has read.
Rerender(show, parsed, h) ==
    IF mounted THEN Render(variant, props, show, parsed, h, panel) ELSE panel

(***************************************************************************)
(* The tokenize callback given to create(), for prop === "name":           *)
(* raw.split(/(?=[A-Z])/).map((s) => s.toLowerCase()).                     *)
(* A string is a sequence of one-character strings.                        *)
(***************************************************************************)

\* toLowerCase of the uppercase letters in use.
Lower == [A |-> "a", B |-> "b", H |-> "h", P |-> "p", S |-> "s", T |-> "t"]

\* The character class [A-Z].
IsUpper(c) == c \in DOMAIN Lower

\* The letters of the enumerated inputs.
Letters == {"A", "B", "a", "b"}

HTTPServer == << "H", "T", "T", "P", "S", "e", "r", "v", "e", "r" >>

\* S.substring(from, to), positions counted from 0.
Substring(S, from, to) == [k \in 1..(to - from) |-> S[from + k]]

\* The lookahead (?=[A-Z]) tried at position q (from 0): it matches the empty
\* string there iff the character that follows is an uppercase letter.
MatchesAt(S, q) == q < Len(S) /\ IsUpper(S[q + 1])

\* The loop of String.prototype.split over a non-empty string: p is the start of
\* the piece being read, q the position where the separator is tried. A match
\* that ends at p (an empty match where the piece starts) is skipped.
RECURSIVE SplitLoop(_, _, _, _)
SplitLoop(S, p, q, A) ==
    IF q >= Len(S) THEN Append(A, Substring(S, p, Len(S)))
    ELSE IF ~ MatchesAt(S, q) THEN SplitLoop(S, p, q + 1, A)
    ELSE IF q = p THEN SplitLoop(S, p, q + 1, A)
    ELSE SplitLoop(S, q, q, Append(A, Substring(S, p, q)))

\* raw.split(/(?=[A-Z])/): for the empty string the result is [] if the separator
\* matches it and [""] otherwise; the lookahead does not match the empty string.
Split(S) ==
    IF Len(S) = 0
    THEN (IF MatchesAt(S, 0) THEN << >> ELSE << S >>)
    ELSE SplitLoop(S, 0, 0, << >>)

\* s.toLowerCase()
toLowerCase(S) == [k \in DOMAIN S |-> IF IsUpper(S[k]) THEN Lower[S[k]] ELSE S[k]]

\* The name branch of the tokenize callback.
tokenize(S) == LET pieces == Split(S) IN [k \in DOMAIN pieces |-> toLowerCase(pieces[k])]

\* The strings over Letters of length at most n.
RECURSIVE StringsUpTo(_)
StringsUpTo(n) ==
    IF n = 0 THEN { << >> }
    ELSE LET shorter == StringsUpTo(n - 1)
         IN shorter \cup { Append(S, c) : S \in shorter, c \in Letters }

\* Orama calls tokenize(raw, lang, "name").
TokenizeName ==
    /\ ~ tokenized
    /\ tokenized' = TRUE
    /\ tokens' = tokenize(raw)
    /\ UNCHANGED << panel, raw, variant, props, content, mounted, createState, fetchState, initPc,
                    searchItems, errorLogged, db, indexDocs, parsedSearchContent, hidden,
                    results, selectionIdx, showResults, inputValue, pending, searchResult,
                    searchOnUnready, searchCounter, href, defaultPrevented,
                    queryCompleted, arrowDowns >>

(***************************************************************************)
(* The mount effect: Promise.all([create(...), api.get(...) or undefined]),*)
(* then parse, extract, insertMultiple, db.value = oramaDb.                *)
(***************************************************************************)

\* The loop pushing { name: searchItem.dataset.name } for every namespaceItem.
RECURSIVE ExtractLoop(_, _, _)
ExtractLoop(d, items, k) ==
    IF k > Len(items) THEN << >>
    ELSE << [name |-> d[items[k]].name] >> \o ExtractLoop(d, items, k + 1)

ExtractSearchItems(d) == ExtractLoop(d, getElementsByClassName(d, 0, "namespaceItem"), 1)

\* The continuation of Promise.all without the test of searchResp.ok: a failed
\* response is parsed and indexed like a successful one.
AfterJoinNoAbort(fs) ==
    /\ parsedSearchContent' = TRUE
    /\ hidden' = [i \in DOMAIN content |-> FALSE]
    /\ searchItems' = ExtractSearchItems(content)
    /\ initPc' = "inserting"
    /\ panel' = IF variant = "navigable" \/ showResults
                THEN Rerender(showResults, TRUE, [i \in DOMAIN content |-> FALSE])
                ELSE panel
    /\ UNCHANGED errorLogged

\* What runs once Promise.all has resolved, up to `await insertMultiple`.
\* fs is the outcome of the second promise: "none" (content prop), "ok", "failed".
AfterJoin(fs) ==
    IF fs = "failed"
    THEN /\ errorLogged' = TRUE
         /\ initPc' = "aborted"
         /\ UNCHANGED << parsedSearchContent, hidden, searchItems, panel >>
    ELSE /\ parsedSearchContent' = TRUE
         /\ hidden' = [i \in DOMAIN content |-> FALSE]
         /\ searchItems' = ExtractSearchItems(content)
         /\ initPc' = "inserting"
         /\ panel' = IF variant = "navigable" \/ showResults
                     THEN Rerender(showResults, TRUE, [i \in DOMAIN content |-> FALSE])
                     ELSE panel
         /\ UNCHANGED errorLogged

\* create() resolves.
CreateResolves ==
    /\ createState = "pending"
    /\ createState' = "resolved"
    /\ IF fetchState # "pending"
       THEN AfterJoin(fetchState)
       ELSE UNCHANGED << errorLogged, initPc, parsedSearchContent, hidden, searchItems, panel >>
    /\ UNCHANGED << raw, tokenized, tokens, variant, props, content, mounted, fetchState, db, indexDocs,
                    results, selectionIdx, showResults, inputValue, pending,
                    searchResult, searchOnUnready, searchCounter, href, defaultPrevented,
                    queryCompleted, arrowDowns >>

\* api.get() resolves with { ok, data }.
FetchResolves(ok) ==
    /\ fetchState = "pending"
    /\ fetchState' = IF ok THEN "ok" ELSE "failed"
    /\ IF createState = "resolved"
       THEN AfterJoin(IF ok THEN "ok" ELSE "failed")
       ELSE UNCHANGED << errorLogged, initPc, parsedSearchContent, hidden, searchItems, panel >>
    /\ UNCHANGED << raw, tokenized, tokens, variant, props, content, mounted, createState, db, indexDocs,
                    results, selectionIdx, showResults, inputValue, pending,
                    searchResult, searchOnUnready, searchCounter, href, defaultPrevented,
                    queryCompleted, arrowDowns >>

\* insertMultiple(oramaDb, searchItems) resolves; db.value = oramaDb.
InsertResolves ==
    /\ initPc = "inserting"
    /\ indexDocs' = searchItems
    /\ db' = TRUE
    /\ initPc' = "done"
    /\ UNCHANGED << panel, raw, tokenized, tokens, variant, props, content, mounted, createState, fetchState,
                    searchItems, errorLogged, parsedSearchContent, hidden,
                    results, selectionIdx, showResults, inputValue, pending,
                    searchResult, searchOnUnready, searchCounter, href, defaultPrevented,
                    queryCompleted, arrowDowns >>

(***************************************************************************)
(* Rendering of the input: disabled={!db}.                                 *)
(***************************************************************************)
\* JavaScript truthiness of the object useSignal returns: an object is truthy
\* whatever its .value holds.
SignalTruthy(value) == TRUE

InputDisabled == ~ SignalTruthy(db)

(***************************************************************************)
(* The reconcile step of onInput.  h maps each element to "display: none", *)
(* names is the local `results` (the hits' names).                         *)
(***************************************************************************)

\* results.includes(searchItem.dataset.name)
Includes(names, n) == \E k \in DOMAIN names : names[k] = n

\* The inner loop without removeProperty("display"): a hit that an earlier query
\* hid stays hidden.
RECURSIVE ItemLoopNoShow(_, _, _, _, _, _)
ItemLoopNoShow(d, h, items, names, k, hiddenItems) ==
    IF k > Len(items) THEN [h |-> h, hiddenItems |-> hiddenItems]
    ELSE IF Includes(names, d[items[k]].name)
         THEN ItemLoopNoShow(d, h, items, names, k + 1, hiddenItems)
         ELSE ItemLoopNoShow(d, [h EXCEPT ![items[k]] = TRUE], items, names, k + 1, hiddenItems + 1)

\* The inner loop counting the items that were hidden before it ran instead of
\* the items it hides.
RECURSIVE ItemLoopStaleCount(_, _, _, _, _, _)
ItemLoopStaleCount(d, h, items, names, k, hiddenItems) ==
    IF k > Len(items) THEN [h |-> h, hiddenItems |-> hiddenItems]
    ELSE LET n == hiddenItems + (IF h[items[k]] THEN 1 ELSE 0) IN
         IF Includes(names, d[items[k]].name)
         THEN ItemLoopStaleCount(d, [h EXCEPT ![items[k]] = FALSE], items, names, k + 1, n)
         ELSE ItemLoopStaleCount(d, [h EXCEPT ![items[k]] = TRUE], items, names, k + 1, n)

\* The inner loop: shows the items whose name is a hit, hides and counts the others.
RECURSIVE ItemLoop(_, _, _, _, _, _)
ItemLoop(d, h, items, names, k, hiddenItems) ==
    IF k > Len(items) THEN [h |-> h, hiddenItems |-> hiddenItems]
    ELSE IF Includes(names, d[items[k]].name)
         THEN ItemLoop(d, [h EXCEPT ![items[k]] = FALSE], items, names, k + 1, hiddenItems)
         ELSE ItemLoop(d, [h EXCEPT ![items[k]] = TRUE], items, names, k + 1, hiddenItems + 1)

\* Navigable variant: one loop over document.getElementsByClassName("namespaceItem").
ReconcileFlat(d, h, names) ==
    ItemLoop(d, h, getElementsByClassName(d, 0, "namespaceItem"), names, 1, 0).h

\* Sectioned variant: the outer loop over document.getElementsByClassName("section").
RECURSIVE SectionLoop(_, _, _, _, _)
SectionLoop(d, h, sections, names, k) ==
    IF k > Len(sections) THEN h
    ELSE LET entrypoints == sections[k]
             items == getElementsByClassName(d, entrypoints, "namespaceItem")
             r == ItemLoop(d, h, items, names, 1, 0)
         IN  IF r.hiddenItems = Len(items)
             THEN SectionLoop(d, [r.h EXCEPT ![entrypoints] = TRUE], sections, names, k + 1)
             ELSE SectionLoop(d, [r.h EXCEPT ![entrypoints] = FALSE], sections, names, k + 1)

\* The section loop without its else-branch: a hidden section is never shown again.
RECURSIVE SectionLoopNoReshow(_, _, _, _, _)
SectionLoopNoReshow(d, h, sections, names, k) ==
    IF k > Len(sections) THEN h
    ELSE LET entrypoints == sections[k]
             items == getElementsByClassName(d, entrypoints, "namespaceItem")
             r == ItemLoop(d, h, items, names, 1, 0)
         IN  IF r.hiddenItems = Len(items)
             THEN SectionLoopNoReshow(d, [r.h EXCEPT ![entrypoints] = TRUE], sections, names, k + 1)
             ELSE SectionLoopNoReshow(d, r.h, sections, names, k + 1)

ReconcileSectionedNoReshow(d, h, names) ==
    SectionLoopNoReshow(d, h, getElementsByClassName(d, 0, "section"), names, 1)

ReconcileSectioned(d, h, names) ==
    SectionLoop(d, h, getElementsByClassName(d, 0, "section"), names, 1)

Reconcile(v, d, h, names) ==
    IF v = "navigable" THEN ReconcileFlat(d, h, names) ELSE ReconcileSectioned(d, h, names)

(***************************************************************************)
(* search(db, { term, properties: ["name"], threshold: 0.4 }) is Orama's:  *)
(* its hits are some documents of the index, each at most once, in some    *)
(* order.                                                                  *)
(***************************************************************************)
HitLists(docs) ==
    UNION { { s \in [1..n -> DOMAIN docs] : \A i, j \in 1..n : i # j => s[i] # s[j] }
            : n \in 0..Len(docs) }

\* searchResult.hits.map((hit) => hit.document)
HitDocuments(docs, s) == [k \in DOMAIN s |-> docs[s[k]]]

\* searchResult.hits.map((hit) => hit.document.name)
HitNames(hits) == [k \in DOMAIN hits |-> hits[k].name]

(***************************************************************************)
(* onInput.                                                                *)
(***************************************************************************)

\* `results.value = searchResult.hits.map(...)` inside the if-block: there `results`
\* is the block's own `let results: string[]`, so the array gets a property and
\* the signal keeps what it held.
ResultsAfterQuery(signalValue, hits) == signalValue

\* An input event with text v: onInput up to its await, or all of its else-branch.
OnInput(v) ==
    /\ mounted
    /\ ~ InputDisabled
    /\ v # inputValue
    /\ inputValue' = v
    /\ arrowDowns' = -1
    /\ IF v # ""
       THEN IF db
            THEN /\ Len(pending) < MaxPending
                 /\ variant = "sectioned" => searchCounter + Len(pending) < MaxSearches
                 /\ pending' = Append(pending, v)
                 /\ UNCHANGED << searchOnUnready, results, showResults, panel >>
            ELSE \* search(undefined, ...) throws; the handler ends there
                 /\ searchOnUnready' = TRUE
                 /\ UNCHANGED << pending, results, showResults, panel >>
       ELSE IF variant = "navigable"
            THEN /\ results' = << >>
                 /\ UNCHANGED << pending, searchOnUnready, showResults, panel >>
            ELSE /\ showResults' = FALSE
                 /\ panel' = IF showResults
                             THEN Rerender(FALSE, parsedSearchContent, hidden)
                             ELSE panel
                 /\ UNCHANGED << pending, searchOnUnready, results >>
    /\ UNCHANGED << raw, tokenized, tokens, variant, props, content, mounted, createState, fetchState, initPc,
                    searchItems, errorLogged, db, indexDocs, parsedSearchContent,
                    hidden, selectionIdx, searchResult, searchCounter, href,
                    defaultPrevented, queryCompleted >>

\* The search of the i-th suspended onInput resolves with hits s; onInput runs on
\* to its end.
SearchResolves(i, s) ==
    /\ i \in DOMAIN pending
    /\ s \in HitLists(indexDocs)
    /\ LET hits == HitDocuments(indexDocs, s) IN
       /\ pending' = SubSeq(pending, 1, i - 1) \o SubSeq(pending, i + 1, Len(pending))
       /\ searchResult' = hits
       /\ queryCompleted' = TRUE
       /\ arrowDowns' = 0
       /\ selectionIdx' = -1
       /\ parsedSearchContent    \* else doc is null and the loop header throws
       /\ hidden' = Reconcile(variant, content, hidden, HitNames(hits))
       /\ IF variant = "navigable"
          THEN /\ results' = ResultsAfterQuery(results, hits)
               /\ UNCHANGED << searchCounter, showResults, panel >>
          ELSE /\ searchCounter' = searchCounter + 1
               /\ showResults' = TRUE
               /\ panel' = Rerender(TRUE, parsedSearchContent, hidden')
               /\ UNCHANGED results
    /\ UNCHANGED << raw, tokenized, tokens, variant, props, content, mounted, createState, fetchState, initPc,
                    searchItems, errorLogged, db, indexDocs, parsedSearchContent,
                    inputValue, searchOnUnready, href, defaultPrevented >>

(***************************************************************************)
(* onKeyUp, the click listener, unmount.                                   *)
(***************************************************************************)
Scope == "std"
Pkg == "fs"

\* item.file of a result record; the records inserted at mount carry a name only.
File(item) == IF "file" \in DOMAIN item THEN item.file ELSE "undefined"

\* The template literal assigned to location.href.
SymbolHref(scope, pkg, version, item) ==
    "/@" \o scope \o "/" \o pkg \o (IF version # "" THEN "@" \o version ELSE "")
         \o "/doc" \o (IF File(item) = "." THEN "" ELSE File(item)) \o "/~/" \o item.name

Keys == {"ArrowDown", "ArrowUp", "Enter"}

\* The Enter branch's two tests: selectionIdx.value > -1, and
\* results.value[selectionIdx.value] !== undefined.
EnterNavigates == selectionIdx > -1 /\ selectionIdx + 1 \in DOMAIN results

\* The body of onKeyUp in the navigable variant.
KeyUpNavigable(key) ==
    IF key = "ArrowDown"
    THEN /\ selectionIdx' = Min(Len(results) - 1, selectionIdx + 1)
         /\ UNCHANGED << href, defaultPrevented >>
    ELSE IF key = "ArrowUp"
    THEN /\ selectionIdx' = Max(0, selectionIdx - 1)
         /\ UNCHANGED << href, defaultPrevented >>
    ELSE IF key = "Enter" /\ EnterNavigates
    THEN /\ defaultPrevented' = TRUE
         /\ href' = SymbolHref(props.scope, props.pkg, props.version, results[selectionIdx + 1])
         /\ UNCHANGED selectionIdx
    ELSE UNCHANGED << selectionIdx, href, defaultPrevented >>

\* A keyup event on the input.  In the sectioned variant the body is commented out.
OnKeyUp(key) ==
    /\ mounted
    /\ ~ InputDisabled
    /\ IF variant = "navigable"
       THEN KeyUpNavigable(key)
       ELSE UNCHANGED << selectionIdx, href, defaultPrevented >>
    /\ arrowDowns' = IF key = "ArrowDown" /\ arrowDowns \in 0..(MaxDowns - 1)
                     THEN arrowDowns + 1 ELSE -1
    /\ UNCHANGED << panel, raw, tokenized, tokens, variant, props, content, mounted, createState, fetchState, initPc,
                    searchItems, errorLogged, db, indexDocs, parsedSearchContent,
                    hidden, results, showResults, inputValue, pending, searchResult,
                    searchOnUnready, searchCounter, queryCompleted >>

\* outsideClick, the document's click listener (navigable variant only):
\* showResults.value = ref.current.contains(e.target).
OutsideClick(inside) ==
    /\ mounted
    /\ variant = "navigable"
    /\ showResults' = inside
    /\ panel' = IF inside # showResults
                THEN Rerender(inside, parsedSearchContent, hidden)
                ELSE panel
    /\ arrowDowns' = -1
    /\ UNCHANGED << raw, tokenized, tokens, variant, props, content, mounted, createState, fetchState, initPc,
                    searchItems, errorLogged, db, indexDocs, parsedSearchContent,
                    hidden, results, selectionIdx, inputValue, pending, searchResult,
                    searchOnUnready, searchCounter, href, defaultPrevented,
                    queryCompleted >>

\* The component unmounts: the effects' cleanups run, the input is gone.  The mount
\* effect's async function and suspended onInput calls are not cancelled.
Unmount ==
    /\ mounted
    /\ mounted' = FALSE
    /\ panel' = IF variant = "navigable" THEN NoPanel ELSE panel
    /\ arrowDowns' = -1
    /\ UNCHANGED << raw, tokenized, tokens, variant, props, content, createState, fetchState, initPc,
                    searchItems, errorLogged, db, indexDocs, parsedSearchContent,
                    hidden, results, selectionIdx, showResults, inputValue, pending,
                    searchResult, searchOnUnready, searchCounter, href, defaultPrevented,
                    queryCompleted >>

(***************************************************************************)
(* The component right after its first render and the start of its effects.*)
(***************************************************************************)
Init ==
    /\ variant \in {"navigable", "sectioned"}
    /\ props \in [content : BOOLEAN, scope : {Scope}, pkg : {Pkg}, version : Versions]
    /\ content \in Docs
    /\ mounted = TRUE
    /\ createState = "pending"
    /\ fetchState = IF props.content THEN "none" ELSE "pending"
    /\ initPc = "awaitAll"
    /\ searchItems = << >>
    /\ errorLogged = FALSE
    /\ db = FALSE
    /\ indexDocs = << >>
    /\ parsedSearchContent = FALSE
    /\ hidden = [i \in DOMAIN content |-> FALSE]
    /\ results = << >>
    /\ selectionIdx = -1
    /\ showResults = (variant = "navigable")
    /\ inputValue = ""
    /\ pending = << >>
    /\ searchResult = << >>
    /\ searchOnUnready = FALSE
    /\ searchCounter = 0
    /\ href = NoHref
    /\ defaultPrevented = FALSE
    /\ queryCompleted = FALSE
    /\ arrowDowns = -1
    /\ raw = << >>
    /\ tokenized = FALSE
    /\ tokens = << >>
    /\ panel = Render(variant, props, showResults, parsedSearchContent, hidden, NoPanel)

Next ==
    \/ CreateResolves
    \/ \E ok \in BOOLEAN : FetchResolves(ok)
    \/ InsertResolves
    \/ \E v \in Terms \cup {""} : OnInput(v)
    \/ \E i \in 1..MaxPending : \E s \in HitLists(indexDocs) : SearchResolves(i, s)
    \/ \E key \in Keys : OnKeyUp(key)
    \/ \E inside \in BOOLEAN : OutsideClick(inside)
    \/ Unmount

Spec == Init /\ [][Next]_vars

(***************************************************************************)
(* The queries of a ready component on their own: the component as the     *)
(* mount effect leaves it when content is a prop (create() and             *)
(* insertMultiple resolved, nothing typed yet), then input events whose    *)
(* search resolves before the next input event.                            *)
(***************************************************************************)
InitReconcile ==
    /\ variant \in {"navigable", "sectioned"}
    /\ props \in [content : {TRUE}, scope : {Scope}, pkg : {Pkg}, version : Versions]
    /\ content \in Docs
    /\ mounted = TRUE
    /\ createState = "resolved"
    /\ fetchState = "none"
    /\ initPc = "done"
    /\ searchItems = ExtractSearchItems(content)
    /\ errorLogged = FALSE
    /\ db = TRUE
    /\ indexDocs = ExtractSearchItems(content)
    /\ parsedSearchContent = TRUE
    /\ hidden = [i \in DOMAIN content |-> FALSE]
    /\ results = << >>
    /\ selectionIdx = -1
    /\ showResults = (variant = "navigable")
    /\ inputValue = ""
    /\ pending = << >>
    /\ searchResult = << >>
    /\ searchOnUnready = FALSE
    /\ searchCounter = 0
    /\ href = NoHref
    /\ defaultPrevented = FALSE
    /\ queryCompleted = FALSE
    /\ arrowDowns = -1
    /\ raw = << >>
    /\ tokenized = FALSE
    /\ tokens = << >>
    /\ panel = Render(variant, props, showResults, parsedSearchContent, hidden, NoPanel)

NextReconcile ==
    \/ \E v \in Terms \cup {""} : pending = << >> /\ OnInput(v)
    \/ \E s \in HitLists(indexDocs) : SearchResolves(1, s)

SpecReconcile == InitReconcile /\ [][NextReconcile]_vars

(***************************************************************************)
(* The whole component over the documents of at most MountNodes elements.  *)
(***************************************************************************)
InitMount == Init /\ Len(content) <= MountNodes

SpecMount == InitMount /\ [][Next]_vars

(***************************************************************************)
(* The tokenize callback alone, applied to one string: every string over   *)
(* Letters of length at most MaxLen, and the name "HTTPServer".            *)
(***************************************************************************)
InitTokenize ==
    /\ raw \in StringsUpTo(MaxLen) \cup { HTTPServer }
    /\ tokenized = FALSE
    /\ tokens = << >>
    /\ variant = "navigable"
    /\ props = [content |-> TRUE, scope |-> Scope, pkg |-> Pkg, version |-> "1.0.0"]
    /\ content = << >>
    /\ mounted = TRUE
    /\ createState = "pending"
    /\ fetchState = "none"
    /\ initPc = "awaitAll"
    /\ searchItems = << >>
    /\ errorLogged = FALSE
    /\ db = FALSE
    /\ indexDocs = << >>
    /\ parsedSearchContent = FALSE
    /\ hidden = << >>
    /\ results = << >>
    /\ selectionIdx = -1
    /\ showResults = TRUE
    /\ inputValue = ""
    /\ pending = << >>
    /\ searchResult = << >>
    /\ searchOnUnready = FALSE
    /\ searchCounter = 0
    /\ href = NoHref
    /\ defaultPrevented = FALSE
    /\ queryCompleted = FALSE
    /\ arrowDowns = -1
    /\ panel = Render(variant, props, showResults, parsedSearchContent, hidden, NoPanel)

NextTokenize == TokenizeName

SpecTokenize == InitTokenize /\ [][NextTokenize]_vars

(***************************************************************************)
(* Properties.                                                             *)
(***************************************************************************)
Items(d) == { i \in DOMAIN d : d[i].kind = "namespaceItem" }
Sections(d) == { i \in DOMAIN d : d[i].kind = "section" }
ItemsIn(d, s) == { i \in Items(d) : s \in Ancestors(d, i) }

\* C1: while the component is mounted and db.value is undefined (initialization
\* pending or aborted), the search input is disabled.
C1_DisabledUntilReady == (mounted /\ ~ db) => InputDisabled

\* C2: search is never called on an index that is not ready: no call with
\* db.value undefined, and every suspended onInput call was made with db.value
\* defined, the bulk insert done and parsedSearchContent.value set.
C2_NoSearchOnUnreadyIndex ==
    /\ ~ searchOnUnready
    /\ pending # << >> => (db /\ initPc = "done" /\ indexDocs = searchItems
                             /\ parsedSearchContent)

\* C3: with no content prop and a fetch that returned ok:false, the error is
\* logged, parsedSearchContent is never set, nothing is inserted, db.value stays
\* undefined and the input stays disabled.
C3_FailedFetchAborts ==
    (~ props.content /\ fetchState = "failed" /\ createState = "resolved")
        => /\ errorLogged
           /\ initPc = "aborted"
           /\ ~ parsedSearchContent
           /\ indexDocs = << >>
           /\ ~ db
           /\ mounted => InputDisabled

\* C4: selectionIdx is in [-1, results.value.length - 1] (stated for the ready
\* component of the navigable variant).
C4_SelectionInRange ==
    (variant = "navigable" /\ db) => selectionIdx \in -1..(Len(results) - 1)

\* C5: showResults is false if and only if the text of the input is empty.
C5_ShownIffQueryNonEmpty == mounted => ((showResults = FALSE) <=> (inputValue = ""))

\* C6: after a non-empty query completed with n >= 1 hits, k ArrowDown keyups with
\* no other event in between leave selectionIdx = min(k, n) - 1.
C6_ArrowDownClamps ==
    (variant = "navigable" /\ mounted /\ inputValue # "" /\ arrowDowns >= 0
       /\ Len(searchResult) >= 1)
        => selectionIdx = Min(arrowDowns, Len(searchResult)) - 1

\* C7: an ArrowUp keyup leaves selectionIdx at -1 when it is -1, and sets it to
\* max(0, selectionIdx - 1) when it is >= 0 (stated for the ready component).
C7_ArrowUpClamps ==
    [][(variant = "navigable" /\ db /\ OnKeyUp("ArrowUp"))
          => selectionIdx' = IF selectionIdx = -1 THEN -1 ELSE Max(0, selectionIdx - 1)]_vars

\* C8: an Enter keyup navigates if and only if selectionIdx is a valid index into
\* the records of the last completed non-empty query.
C8_EnterNavigatesIffValid ==
    (variant = "navigable" /\ mounted /\ queryCompleted /\ inputValue # ""
       /\ pending = << >>)
        => (EnterNavigates <=> selectionIdx \in 0..(Len(searchResult) - 1))

\* C9: after the reconcile step of a completed query, every namespaceItem element,
\* inside a section or not, is visible if and only if its data-name is the name
\* of a hit.
C9_ItemVisibleIffHit ==
    queryCompleted
        => \A i \in Items(content) :
               hidden[i] <=> ~ Includes(HitNames(searchResult), content[i].name)

\* C10: in the sectioned variant, after the reconcile step of a completed query,
\* every section element, nested or not, hidden by a previous query or not, is
\* hidden if and only if all the namespaceItem elements it contains are hidden.
C10_SectionHiddenIffAllItemsHidden ==
    (variant = "sectioned" /\ queryCompleted)
        => \A s \in Sections(content) :
               hidden[s] <=> (\A i \in ItemsIn(content, s) : hidden[i])

\* A second query has been reconciled over a section nested in another one: the
\* inner section holds a visible item and both sections are shown.
C10_Witness ==
    /\ variant = "sectioned"
    /\ searchCounter = 2
    /\ \E s1, s2 \in Sections(content) :
         /\ s1 \in Ancestors(content, s2)
         /\ ~ hidden[s1] /\ ~ hidden[s2]
         /\ \E i \in ItemsIn(content, s2) : ~ hidden[i]

\* Every data-name of the document is the name of a hit of the last query.
AllNamesHit ==
    \A i \in Items(content) : Includes(HitNames(searchResult), content[i].name)

\* C11: after the reconcile step of a query with no hits, every namespaceItem
\* element is hidden and, in the sectioned variant, every section element too.
C11_NoHitsHidesAll ==
    (queryCompleted /\ searchResult = << >>)
        => /\ \A i \in Items(content) : hidden[i]
           /\ variant = "sectioned" => \A s \in Sections(content) : hidden[s]

\* C12 as stated: after the reconcile step of a query whose hits carry every name
\* of the document, every namespaceItem element and every section element is
\* shown, sections without any namespaceItem included.
C12_AllNamesShowsAll ==
    (queryCompleted /\ AllNamesHit)
        => /\ \A i \in Items(content) : ~ hidden[i]
           /\ \A s \in Sections(content) : ~ hidden[s]

\* C12 as amended: after the reconcile step of a query whose hits carry every name
\* of the document, every namespaceItem element is shown, whatever an earlier
\* query hid, and every section element that contains a namespaceItem is shown;
\* in the sectioned variant a section that contains none is hidden.
C12_AllNamesShowsAllNonEmpty ==
    (queryCompleted /\ AllNamesHit)
        => /\ \A i \in Items(content) : ~ hidden[i]
           /\ \A s \in Sections(content) :
                  hidden[s] <=> (variant = "sectioned" /\ ItemsIn(content, s) = {})

\* A second query whose hits carry every name has been reconciled over a document
\* with a section holding an item and a section holding none.
C12_Witness ==
    /\ variant = "sectioned"
    /\ searchCounter = 2
    /\ AllNamesHit
    /\ \E s \in Sections(content) : ItemsIn(content, s) # {} /\ ~ hidden[s]
    /\ \E s \in Sections(content) : ItemsIn(content, s) = {} /\ hidden[s]

\* C13: the reconcile step is idempotent: applied once more with the names of the
\* query it was last applied with, it leaves the visibility of every item and
\* section as it is.
C13_ReconcileIdempotent ==
    queryCompleted
        => Reconcile(variant, content, hidden, HitNames(searchResult)) = hidden

\* A second query has been reconciled and left a shown section with a visible
\* and a hidden item in it.
C13_Witness ==
    /\ variant = "sectioned"
    /\ searchCounter = 2
    /\ \E s \in Sections(content) :
         /\ ~ hidden[s]
         /\ \E i, j \in ItemsIn(content, s) : ~ hidden[i] /\ hidden[j]

\* C15: db.value becomes defined at most once in a mount (once defined it stays
\* defined), and only in a step taken after create() has resolved, the content was
\* fetched successfully or supplied as a prop, and insertMultiple has put every
\* extracted record in the index; from then on the index is never changed.
C15_ReadyOnceAfterBuild ==
    [][ /\ db => (db' /\ indexDocs' = indexDocs)
        /\ (~ db /\ db') =>
              /\ createState = "resolved"
              /\ fetchState = (IF props.content THEN "none" ELSE "ok")
              /\ initPc = "inserting"
              /\ parsedSearchContent
              /\ indexDocs' = ExtractSearchItems(content)
        /\ ~ db' => indexDocs' = << >> ]_vars

\* The component became ready after a successful fetch and has completed a query
\* on a non-empty index.
C15_Witness ==
    /\ db
    /\ fetchState = "ok"
    /\ queryCompleted
    /\ indexDocs # << >>
    /\ indexDocs = ExtractSearchItems(content)

\* C16: in the navigable variant the results signal holds the hit documents of
\* the last completed query, in order, from its completion until the next input
\* event, and the empty sequence after an input event with an empty value.
C16_ResultsSignalHoldsHits ==
    /\ (variant = "navigable" /\ arrowDowns >= 0) => results = searchResult
    /\ (variant = "navigable" /\ db /\ pending = << >> /\ inputValue = ""
          /\ arrowDowns = -1) => results = << >>

\* C18: no handler runs between the start of a query and the application of its
\* results: while a search is in flight, the only step that can be taken is the
\* one that applies its hits.
C18_QueryNotInterleaved ==
    [][pending # << >> => Len(pending') < Len(pending)]_vars

\* C19: after the component has unmounted, neither parsedSearchContent nor db is
\* written.
C19_NoWriteAfterUnmount ==
    [][~ mounted => (db' = db /\ parsedSearchContent' = parsedSearchContent)]_vars

\* The concatenation of the pieces of an array of strings.
RECURSIVE Concat(_)
Concat(A) == IF A = << >> THEN << >> ELSE Head(A) \o Concat(Tail(A))

\* The position in raw (from 1) where piece k of the array starts.
RECURSIVE StartOf(_, _)
StartOf(A, k) == IF k = 1 THEN 1 ELSE StartOf(A, k - 1) + Len(A[k - 1])

\* C14: the tokenizer of the name field returns the pieces of raw cut
\* immediately before each uppercase letter, each lowercased; no piece is empty,
\* also when raw is the empty string; "HTTPServer" gives h, t, t, p, server; and
\* the pieces put together are raw in lower case.
C14_TokenizeCutsBeforeCapitals ==
    tokenized =>
        /\ \A k \in DOMAIN tokens : tokens[k] # << >>
        /\ Concat(tokens) = toLowerCase(raw)
        /\ { StartOf(tokens, k) : k \in DOMAIN tokens } \ {1}
              = { i \in DOMAIN raw : IsUpper(raw[i]) } \ {1}
        /\ raw = HTTPServer
              => tokens = << <<"h">>, <<"t">>, <<"t">>, <<"p">>,
                             <<"s", "e", "r", "v", "e", "r">> >>

\* C17: after every completed query, and until the next user input is processed,
\* the results panel on screen shows the snapshot as the reconcile step of that
\* query left it, in both variants.
C17_PanelShowsReconciledSnapshot ==
    (mounted /\ arrowDowns >= 0 /\ showResults)
        => (panel.shown /\ panel.hasDoc /\ panel.html = hidden)

\* C20: latest input wins: once no search is pending, showResults corresponds to
\* the most recent value of the input, whatever the order in which the searches
\* resolved.  In the sectioned variant, where onInput writes showResults, it is
\* true iff that value is not empty (every non-empty value having been searched
\* on a ready index).
C20_LatestInputWins ==
    (variant = "sectioned" /\ mounted /\ pending = << >> /\ ~ searchOnUnready)
        => (showResults <=> inputValue # "")

====
